---- MODULE Spec2Model ----
(***************************************************************************)
(* A model of the GroupChat analyzer: preprocessor.preprocess (timestamp   *)
(* pattern selection, entry pairing, timestamp resolution, speaker         *)
(* extraction, calendar fields, clean-up) and app.main / app.analyze_chat. *)
(*                                                                         *)
(* Text is a sequence of symbols.  A symbol is a TLA+ string standing for  *)
(* one lexical unit of the transcript: a run of digits ("25", "2023"), a   *)
(* punctuation character ("/", ":", "-", ">", ",", ".", "[", "]"), a       *)
(* whitespace character (" ", "\n"), a meridiem marker ("AM", "PM") or a   *)
(* word.  The empty Python string is the empty sequence.                   *)
(***************************************************************************)
EXTENDS Integers, Sequences, FiniteSets, TLC

VARIABLES
    data,           \* the transcript handed to preprocess (main: data)
    strict_infer,   \* pd.to_datetime guesses one format for the whole column
    pc,             \* position of main / analyze_chat
    messages,       \* preprocess: messages after the pattern loop
    dates,          \* preprocess: dates after the pattern loop
    used_pattern,   \* preprocess: 1-based index of the committed pattern, 0 = None
    parsed,         \* preprocess: the frame after date resolution, before dropna
    df,             \* the Record set returned by preprocess and held by main
    df_columns,     \* the column names of df
    raised,         \* an exception left preprocess or analyze_chat
    ui,             \* what main reported: st.error / st.info texts, in order
    selected_user,  \* main: the sidebar's user selection
    options,        \* main: the six toggles
    attempted,      \* analyze_chat: the sections attempted so far, in order
    errors,         \* analyze_chat: the sections whose try block caught an exception
    df_before,      \* the Record set and columns as they were when analyze_chat was called
    hour_col,       \* a column of hours handed to create_time_period
    period_col      \* the column create_time_period produced from hour_col

vars == << data, strict_infer, pc, messages, dates, used_pattern, parsed, df,
           df_columns, raised, ui, selected_user, options, attempted, errors,
           df_before, hour_col, period_col >>

----------------------------------------------------------------------------
(* Symbols                                                                 *)

Whitespace == {" ", "\n"}

Numerals == {"00", "01", "09", "10", "12", "15", "22", "23", "25", "30", "31",
             "32", "33", "45", "59", "61", "2023"}

\* int(numeral)
NumVal(sym) ==
    CASE sym = "00" -> 0   [] sym = "01" -> 1   [] sym = "09" -> 9
      [] sym = "10" -> 10  [] sym = "12" -> 12  [] sym = "15" -> 15
      [] sym = "22" -> 22  [] sym = "23" -> 23  [] sym = "25" -> 25
      [] sym = "30" -> 30  [] sym = "31" -> 31  [] sym = "32" -> 32
      [] sym = "33" -> 33  [] sym = "45" -> 45  [] sym = "59" -> 59
      [] sym = "61" -> 61  [] sym = "2023" -> 2023
      [] OTHER -> 0

\* len(numeral)
NumLen(sym) == IF sym = "2023" THEN 4 ELSE 2

Meridiems == {"AM", "PM", "am", "pm"}

\* str.lower() on one symbol
LowerSym(sym) ==
    CASE sym = "You" -> "you"
      [] sym = "This" -> "this"
      [] sym = "Messages" -> "messages"
      [] sym = "John" -> "john"
      [] sym = "Jane" -> "jane"
      [] sym = "Mike" -> "mike"
      [] sym = "Hello" -> "hello"
      [] sym = "Hi" -> "hi"
      [] sym = "Good" -> "good"
      [] sym = "I'm" -> "i'm"
      [] sym = "How" -> "how"
      [] sym = "AM" -> "am"
      [] sym = "PM" -> "pm"
      [] OTHER -> sym

\* str.lower()
Lower(s) == [i \in 1..Len(s) |-> LowerSym(s[i])]

RECURSIVE LStrip(_)
LStrip(s) == IF s # << >> /\ Head(s) \in Whitespace THEN LStrip(Tail(s)) ELSE s

RECURSIVE RStrip(_)
RStrip(s) ==
    IF s # << >> /\ s[Len(s)] \in Whitespace
    THEN RStrip(SubSeq(s, 1, Len(s) - 1))
    ELSE s

\* str.strip()
Strip(s) == RStrip(LStrip(s))

\* needle in hay
Contains(hay, needle) ==
    \E i \in 1..(Len(hay) - Len(needle) + 1) :
        SubSeq(hay, i, i + Len(needle) - 1) = needle

----------------------------------------------------------------------------
(* Regular expressions over symbols.  An atom is a literal symbol or one   *)
(* of the classes below; "WS*" is the greedy \s*.                          *)

AtomHas(atom, sym) ==
    CASE atom = "N12" -> sym \in Numerals /\ NumLen(sym) <= 2     \* \d{1,2}
      [] atom = "N2"  -> sym \in Numerals /\ NumLen(sym) = 2      \* \d{2}
      [] atom = "N24" -> sym \in Numerals /\ NumLen(sym) \in 2..4 \* \d{2,4}
      [] atom = "N4"  -> sym \in Numerals /\ NumLen(sym) = 4      \* \d{4}
      [] atom = "MER" -> sym \in Meridiems                        \* [APap][Mm]
      [] OTHER -> sym = atom

RECURSIVE SkipWS(_, _)
SkipWS(s, i) == IF i <= Len(s) /\ s[i] \in Whitespace THEN SkipWS(s, i + 1) ELSE i

\* The position after atoms[k..] matched at s[i..]; 0 when they do not match.
RECURSIVE MatchAtoms(_, _, _, _)
MatchAtoms(atoms, k, s, i) ==
    IF i = 0 THEN 0
    ELSE IF k > Len(atoms) THEN i
    ELSE IF atoms[k] = "WS*" THEN MatchAtoms(atoms, k + 1, s, SkipWS(s, i))
    ELSE IF i <= Len(s) /\ AtomHas(atoms[k], s[i])
         THEN MatchAtoms(atoms, k + 1, s, i + 1)
         ELSE 0

SlashDate == <<"N12", "/", "N12", "/", "N24">>
DotDate   == <<"N12", ".", "N12", ".", "N24">>
IsoDate   == <<"N4", "-", "N12", "-", "N12">>
HourMin   == <<",", "WS*", "N12", ":", "N2">>
DashSep   == <<"WS*", "-", "WS*">>

\* The six timestamp patterns: the atoms before the group, of the group, after it.
patterns == <<
    [pre |-> << >>, cap |-> SlashDate \o HourMin, post |-> DashSep],
    [pre |-> << >>, cap |-> SlashDate \o HourMin \o <<"WS*", "MER">>, post |-> DashSep],
    [pre |-> << >>, cap |-> SlashDate \o HourMin \o <<"WS*", "MER">>, post |-> DashSep],
    [pre |-> << >>, cap |-> DotDate \o HourMin, post |-> DashSep],
    [pre |-> << >>, cap |-> IsoDate \o HourMin, post |-> DashSep],
    [pre |-> <<"[">>, cap |-> SlashDate \o HourMin \o <<":", "N2">>,
     post |-> <<"]", "WS*">>] >>

\* One match of pattern p at position i: where the group starts and ends and
\* where the match ends (end = 0: no match at i).
MatchAt(p, s, i) ==
    LET a == MatchAtoms(p.pre, 1, s, i)
        b == MatchAtoms(p.cap, 1, s, a)
        c == MatchAtoms(p.post, 1, s, b)
    IN  [start |-> i, capFrom |-> a, capTo |-> b - 1, end |-> c]

\* The non-overlapping matches of p in s, left to right, scanning from i.
RECURSIVE FindMatches(_, _, _)
FindMatches(p, s, i) ==
    IF i > Len(s) THEN << >>
    ELSE CHOOSE r \in
            { IF m.end # 0
              THEN <<m>> \o FindMatches(p, s, m.end)
              ELSE FindMatches(p, s, m.start + 1) : m \in {MatchAt(p, s, i)} } : TRUE

\* re.findall(pattern, data): the group of every match.
Groups(ms, s) == [k \in 1..Len(ms) |-> SubSeq(s, ms[k].capFrom, ms[k].capTo)]

re_findall(p, s) == CHOOSE r \in {Groups(ms, s) : ms \in {FindMatches(p, s, 1)}} : TRUE

\* re.split(pattern, data) for a pattern with one group: the text before the
\* first match, then for each match its group and the text up to the next match.
Pieces(ms, s) ==
    LET n == Len(ms)
        Piece(k) ==   \* the text after match k (k = 0: before the first match)
            SubSeq(s, IF k = 0 THEN 1 ELSE ms[k].end,
                      IF k = n THEN Len(s) ELSE ms[k + 1].start - 1)
    IN  [j \in 1..(2 * n + 1) |->
            IF j % 2 = 1 THEN Piece((j - 1) \div 2)
            ELSE SubSeq(s, ms[j \div 2].capFrom, ms[j \div 2].capTo)]

re_split(p, s) == CHOOSE r \in {Pieces(ms, s) : ms \in {FindMatches(p, s, 1)}} : TRUE

----------------------------------------------------------------------------
(* preprocess: the pattern loop                                            *)

\* if temp_messages[0] == '': temp_messages = temp_messages[1:]
Trimmed(temp_messages) ==
    IF temp_messages[1] = << >> THEN Tail(temp_messages) ELSE temp_messages

\* The pattern loop without its break: a later candidate that also matches
\* overwrites the earlier one.
RECURSIVE TryPatterns_no_break(_, _)
TryPatterns_no_break(i, text) ==
    IF i > Len(patterns)
    THEN [messages |-> << >>, dates |-> << >>, used_pattern |-> 0]
    ELSE CHOOSE r \in
            { IF later.used_pattern # 0 THEN later
              ELSE IF Len(temp_dates) > 0 /\ Len(temp_messages) > 1
                      /\ Len(Trimmed(temp_messages)) >= Len(temp_dates)
              THEN [messages |-> SubSeq(Trimmed(temp_messages), 1, Len(temp_dates)),
                    dates |-> temp_dates,
                    used_pattern |-> i]
              ELSE later :
                temp_messages \in {re_split(patterns[i], text)},
                temp_dates \in {re_findall(patterns[i], text)},
                later \in {TryPatterns_no_break(i + 1, text)} } : TRUE

\* The loop over patterns from index i on, with its break.
RECURSIVE TryPatterns(_, _)
TryPatterns(i, text) ==
    IF i > Len(patterns)
    THEN [messages |-> << >>, dates |-> << >>, used_pattern |-> 0]
    ELSE CHOOSE r \in
            { IF Len(temp_dates) > 0 /\ Len(temp_messages) > 1
                 /\ Len(Trimmed(temp_messages)) >= Len(temp_dates)
              THEN [messages |-> SubSeq(Trimmed(temp_messages), 1, Len(temp_dates)),
                    dates |-> temp_dates,
                    used_pattern |-> i]
              ELSE TryPatterns(i + 1, text) :
                temp_messages \in {re_split(patterns[i], text)},
                temp_dates \in {re_findall(patterns[i], text)} } : TRUE

----------------------------------------------------------------------------
(* Timestamp resolution.  A resolved timestamp is a record with ok = TRUE; *)
(* NaT is the record with ok = FALSE.  Formats are sequences of strptime   *)
(* directives and literal symbols; " " in a format is \s+.                 *)

NaT == [ok |-> FALSE, year |-> 0, month |-> 0, day |-> 0, hour |-> 0, minute |-> 0]

Directives == {"%d", "%m", "%Y", "%y", "%H", "%I", "%M", "%S", "%p"}

DirectiveFits(d, sym) ==
    CASE d = "%d" -> sym \in Numerals /\ NumLen(sym) <= 2 /\ NumVal(sym) \in 1..31
      [] d = "%m" -> sym \in Numerals /\ NumLen(sym) <= 2 /\ NumVal(sym) \in 1..12
      [] d = "%Y" -> sym \in Numerals /\ NumLen(sym) = 4
      [] d = "%y" -> sym \in Numerals /\ NumLen(sym) = 2
      [] d = "%H" -> sym \in Numerals /\ NumLen(sym) <= 2 /\ NumVal(sym) \in 0..23
      [] d = "%I" -> sym \in Numerals /\ NumLen(sym) <= 2 /\ NumVal(sym) \in 1..12
      [] d = "%M" -> sym \in Numerals /\ NumLen(sym) <= 2 /\ NumVal(sym) \in 0..59
      [] d = "%S" -> sym \in Numerals /\ NumLen(sym) <= 2 /\ NumVal(sym) \in 0..61
      [] d = "%p" -> sym \in Meridiems
      [] OTHER -> FALSE

\* What the directives read so far; I = -1 and p = "" mean "not read".
NoFields == [d |-> 1, m |-> 1, Y |-> 1900, H |-> 0, I |-> -1, M |-> 0, p |-> ""]

Store(acc, d, sym) ==
    CASE d = "%d" -> [acc EXCEPT !.d = NumVal(sym)]
      [] d = "%m" -> [acc EXCEPT !.m = NumVal(sym)]
      [] d = "%Y" -> [acc EXCEPT !.Y = NumVal(sym)]
      [] d = "%y" -> [acc EXCEPT !.Y = IF NumVal(sym) < 69 THEN 2000 + NumVal(sym)
                                                          ELSE 1900 + NumVal(sym)]
      [] d = "%H" -> [acc EXCEPT !.H = NumVal(sym)]
      [] d = "%I" -> [acc EXCEPT !.I = NumVal(sym)]
      [] d = "%M" -> [acc EXCEPT !.M = NumVal(sym)]
      [] d = "%p" -> [acc EXCEPT !.p = LowerSym(sym)]
      [] OTHER -> acc

\* %H wins over %I/%p when a format has both; %I is read with %p.
Resolved(acc) ==
    [ok |-> TRUE, year |-> acc.Y, month |-> acc.m, day |-> acc.d,
     hour |-> IF acc.I = -1 THEN acc.H
              ELSE (acc.I % 12) + (IF acc.p = "pm" THEN 12 ELSE 0),
     minute |-> acc.M]

\* strptime of t[i..] against fmt[k..]: the whole text must be consumed.
RECURSIVE Strptime(_, _, _, _, _)
Strptime(fmt, k, t, i, acc) ==
    IF k > Len(fmt) THEN (IF i = Len(t) + 1 THEN Resolved(acc) ELSE NaT)
    ELSE IF i > Len(t) THEN NaT
    ELSE IF fmt[k] = " "
         THEN (IF t[i] \in Whitespace
               THEN Strptime(fmt, k + 1, t, SkipWS(t, i), acc) ELSE NaT)
    ELSE IF fmt[k] \in Directives
         THEN (IF DirectiveFits(fmt[k], t[i])
               THEN Strptime(fmt, k + 1, t, i + 1, Store(acc, fmt[k], t[i]))
               ELSE NaT)
    ELSE IF t[i] = fmt[k] THEN Strptime(fmt, k + 1, t, i + 1, acc) ELSE NaT

\* pd.to_datetime(date_str, format=fmt): raises (here: NaT) unless it matches.
to_datetime_format(t, fmt) == Strptime(fmt, 1, t, 1, NoFields)

HM   == <<"%H", ":", "%M">>
HMp  == <<"%H", ":", "%M", " ", "%p">>
IMp  == <<"%I", ":", "%M", " ", "%p">>
HMS  == <<"%H", ":", "%M", ":", "%S">>
IMSp == <<"%I", ":", "%M", ":", "%S", " ", "%p">>

DateFmt(a, b, c, sep) == <<a, sep, b, sep, c, ",", " ">>

\* parse_date_manually: formats
formats == <<
    DateFmt("%d", "%m", "%Y", "/") \o HM,
    DateFmt("%d", "%m", "%y", "/") \o HM,
    DateFmt("%m", "%d", "%Y", "/") \o HMp,
    DateFmt("%m", "%d", "%y", "/") \o HMp,
    DateFmt("%d", "%m", "%Y", "/") \o IMp,
    DateFmt("%d", "%m", "%y", "/") \o IMp,
    DateFmt("%d", "%m", "%Y", ".") \o HM,
    DateFmt("%d", "%m", "%y", ".") \o HM,
    DateFmt("%Y", "%m", "%d", "-") \o HM,
    DateFmt("%d", "%m", "%Y", "/") \o HMS,
    DateFmt("%d", "%m", "%y", "/") \o HMS >>

\* The layouts general inference recognises, in the order it guesses them:
\* month first unless the first number cannot be a month, ISO order for dashes.
InferDates == <<
    DateFmt("%m", "%d", "%Y", "/"), DateFmt("%d", "%m", "%Y", "/"),
    DateFmt("%m", "%d", "%y", "/"), DateFmt("%d", "%m", "%y", "/"),
    DateFmt("%m", "%d", "%Y", "."), DateFmt("%d", "%m", "%Y", "."),
    DateFmt("%m", "%d", "%y", "."), DateFmt("%d", "%m", "%y", "."),
    DateFmt("%Y", "%m", "%d", "-") >>

InferTimes == <<HM, HMS, IMp, IMSp>>

InferLayout(n) ==
    InferDates[((n - 1) \div Len(InferTimes)) + 1]
        \o InferTimes[((n - 1) % Len(InferTimes)) + 1]

NumLayouts == Len(InferDates) * Len(InferTimes)

\* The layout guessed for one text: the first from n on that parses it, 0
\* when none does.
RECURSIVE GuessFrom(_, _)
GuessFrom(n, t) ==
    IF n > NumLayouts THEN 0
    ELSE IF to_datetime_format(t, InferLayout(n)).ok THEN n
    ELSE GuessFrom(n + 1, t)

GuessLayout(t) == GuessFrom(1, t)

\* pd.to_datetime(date_str, infer_datetime_format=True) on one string.
to_datetime_infer(t) ==
    CHOOSE r \in { IF g = 0 THEN NaT ELSE to_datetime_format(t, InferLayout(g)) :
                    g \in {GuessLayout(t)} } : TRUE

\* pd.to_datetime(column, infer_datetime_format=True, errors='coerce').  With
\* strict: the layout is guessed from the first element and every element that
\* does not parse under it is NaT; when no layout can be guessed, and without
\* strict, each element is inferred on its own.
to_datetime_coerce(col, strict) ==
    CHOOSE r \in
        { [i \in 1..Len(col) |->
              IF strict /\ g # 0 THEN to_datetime_format(col[i], InferLayout(g))
              ELSE to_datetime_infer(col[i])] :
          g \in {IF col = << >> THEN 0 ELSE GuessLayout(col[1])} } : TRUE

RECURSIVE LStripBrackets(_)
LStripBrackets(s) ==
    IF s # << >> /\ Head(s) \in {"[", "]"} THEN LStripBrackets(Tail(s)) ELSE s

RECURSIVE RStripBrackets(_)
RStripBrackets(s) ==
    IF s # << >> /\ s[Len(s)] \in {"[", "]"}
    THEN RStripBrackets(SubSeq(s, 1, Len(s) - 1))
    ELSE s

\* The loop over formats from index k on; after it, inference once more.
RECURSIVE TryFormats(_, _)
TryFormats(k, t) ==
    IF k > Len(formats) THEN to_datetime_infer(t)
    ELSE IF to_datetime_format(t, formats[k]).ok THEN to_datetime_format(t, formats[k])
    ELSE TryFormats(k + 1, t)

parse_date_manually(date_str) == TryFormats(1, RStripBrackets(LStripBrackets(date_str)))

\* preprocess, lines 69-76: the frame with its date column.
ResolveDates(msgs, dts, strict) ==
    CHOOSE r \in
        { [i \in 1..Len(dts) |->
              [entry |-> i,
               user_message |-> msgs[i],
               message_date |-> dts[i],
               date |-> IF \A k \in 1..Len(dts) : ~inferred[k].ok
                        THEN parse_date_manually(dts[i]) ELSE inferred[i]]] :
          inferred \in {to_datetime_coerce(dts, strict)} } : TRUE

\* dropna left out: rows without a date stay.
dropna_keeps_all(frame) == frame

\* df.dropna(subset=['date'])
dropna(frame) == SelectSeq(frame, LAMBDA r : r.date.ok)

----------------------------------------------------------------------------
(* preprocess: speaker extraction                                          *)

group_notification == <<"group_notification">>

Phrase2(a, b) == <<a, " ", b>>
Phrase3(a, b, c) == <<a, " ", b, " ", c>>

\* is_system_message: system_indicators
system_indicators == <<
    Phrase3("You", "created", "group"),
    Phrase2("created", "group"),
    <<"added">>,
    <<"removed">>,
    <<"left">>,
    <<"joined">>,
    Phrase3("changed", "the", "group"),
    Phrase3("changed", "this", "group"),
    Phrase3("security", "code", "changed"),
    Phrase3("Messages", "to", "this") \o <<" ">> \o Phrase3("group", "are", "secured"),
    Phrase2("This", "message") \o <<" ">> \o Phrase2("was", "deleted"),
    Phrase2("You", "deleted") \o <<" ">> \o Phrase2("this", "message"),
    Phrase2("image", "omitted"),
    Phrase2("video", "omitted"),
    Phrase2("audio", "omitted"),
    Phrase2("document", "omitted"),
    Phrase2("contact", "omitted"),
    Phrase2("location", "omitted"),
    Phrase2("sticker", "omitted"),
    Phrase2("gif", "omitted") >>

is_system_message(user) ==
    \E user_lower \in {Lower(user)} :
        \E k \in 1..Len(system_indicators) : Contains(user_lower, system_indicators[k])

\* user_patterns: the character that ends the speaker in each convention.
user_patterns == <<":", "-", ">">>

\* The first position of sym in s, 0 when it does not occur.
IndexOf(s, sym) ==
    IF \E i \in 1..Len(s) : s[i] = sym
    THEN CHOOSE i \in 1..Len(s) : s[i] = sym /\ \A j \in 1..(i - 1) : s[j] # sym
    ELSE 0

\* re.match(r'^([^c]+)c\s*(.*)$', message, re.DOTALL) for c = sep: the groups.
UserMatch(sep, message) ==
    LET j == IndexOf(message, sep)
    IN  [matched |-> j >= 2,
         g1 |-> IF j >= 2 THEN SubSeq(message, 1, j - 1) ELSE << >>,
         g2 |-> IF j >= 2 THEN SubSeq(message, SkipWS(message, j + 1), Len(message))
                ELSE << >>]

\* The loop without its break: the last convention that matches decides.
TryUserPatterns_last_match(k, message) ==
    LET ks == {i \in k..Len(user_patterns) : UserMatch(user_patterns[i], message).matched}
    IN  IF ks = {}
        THEN [user |-> group_notification, message |-> message]
        ELSE LET last == CHOOSE i \in ks : \A o \in ks : o <= i
                 m == UserMatch(user_patterns[last], message)
             IN  IF ~is_system_message(Strip(m.g1))
                 THEN [user |-> Strip(m.g1), message |-> Strip(m.g2)]
                 ELSE [user |-> group_notification, message |-> message]

\* The loop without its fallback: a message no convention matches is taken
\* as its own speaker.
TryUserPatterns_text_as_user(k, message) ==
    LET ks == {i \in k..Len(user_patterns) : UserMatch(user_patterns[i], message).matched}
    IN  IF ks = {}
        THEN [user |-> message, message |-> message]
        ELSE LET first == CHOOSE i \in ks : \A o \in ks : i <= o
                 m == UserMatch(user_patterns[first], message)
             IN  IF ~is_system_message(Strip(m.g1))
                 THEN [user |-> Strip(m.g1), message |-> Strip(m.g2)]
                 ELSE [user |-> group_notification, message |-> message]

\* The loop over user_patterns from index k on, for one stripped message.
RECURSIVE TryUserPatterns(_, _)
TryUserPatterns(k, message) ==
    IF k > Len(user_patterns)
    THEN [user |-> group_notification, message |-> message]
    ELSE LET m == UserMatch(user_patterns[k], message)
             user == Strip(m.g1)
             msg_content == Strip(m.g2)
         IN  IF m.matched
             THEN (IF ~is_system_message(user)
                   THEN [user |-> user, message |-> msg_content]
                   ELSE [user |-> group_notification, message |-> message])
             ELSE TryUserPatterns(k + 1, message)

\* preprocess, lines 92-123: the body of the loop over df['user_message'].
ExtractUser(user_message) == TryUserPatterns(1, Strip(user_message))

----------------------------------------------------------------------------
(* preprocess: calendar fields and clean-up                                *)

Digit(n) ==
    CASE n = 0 -> "0" [] n = 1 -> "1" [] n = 2 -> "2" [] n = 3 -> "3" [] n = 4 -> "4"
      [] n = 5 -> "5" [] n = 6 -> "6" [] n = 7 -> "7" [] n = 8 -> "8" [] n = 9 -> "9"

\* str(n) for n >= 0, one symbol per character
RECURSIVE Decimal(_)
Decimal(n) == IF n < 10 THEN <<Digit(n)>> ELSE Decimal(n \div 10) \o <<Digit(n % 10)>>

\* f"{n:02d}"
Format02d(n) == IF n < 10 THEN <<"0">> \o Decimal(n) ELSE Decimal(n)

\* create_time_period without its branch for hour 23.
create_time_period_no_wrap(hour) ==
    IF hour = 0 THEN <<"0", "0", "-", "0", "1">>
    ELSE Format02d(hour) \o <<"-">> \o Format02d(hour + 1)

create_time_period(hour) ==
    IF hour = 23 THEN <<"2", "3", "-", "0", "0">>
    ELSE IF hour = 0 THEN <<"0", "0", "-", "0", "1">>
    ELSE Format02d(hour) \o <<"-">> \o Format02d(hour + 1)

\* The columns of the frame preprocess returns.
RecordColumns == {"user", "message", "date", "only_date", "year", "month_num",
                  "month", "day", "day_name", "hour", "minute", "period"}

\* preprocess, lines 126-141: one row with its user, message and calendar
\* fields.  month and day_name are names looked up from month_num and
\* only_date and are not carried.
MakeRecord(r) ==
    CHOOSE row \in {
        [entry |-> r.entry,
         user |-> um.user,
         message |-> um.message,
         date |-> r.date,
         only_date |-> <<r.date.year, r.date.month, r.date.day>>,
         year |-> r.date.year,
         month_num |-> r.date.month,
         day |-> r.date.day,
         hour |-> r.date.hour,
         minute |-> r.date.minute,
         period |-> create_time_period(r.date.hour)] :
        um \in {ExtractUser(r.user_message)} } : TRUE

\* The filter left out: rows with an empty message stay.
DropEmpty_keeps_all(frame) == frame

\* df[df['message'].str.strip() != ''] and reset_index(drop=True)
DropEmpty(frame) == SelectSeq(frame, LAMBDA r : Strip(r.message) # << >>)

\* preprocess as a whole: the values of its locals and what it returns.
\* preprocess from line 59 on, given what the pattern loop left.
AfterLoop(loop, strict) ==
    IF loop.dates = << >> \/ loop.messages = << >>
    THEN [messages |-> loop.messages, dates |-> loop.dates,
          used_pattern |-> loop.used_pattern, parsed |-> << >>, df |-> << >>]
    ELSE CHOOSE r \in
            { [messages |-> loop.messages,
               dates |-> loop.dates,
               used_pattern |-> loop.used_pattern,
               parsed |-> frame,
               df |-> IF dropna(frame) = << >> THEN << >>
                      ELSE DropEmpty([i \in 1..Len(dropna(frame)) |->
                                         MakeRecord(dropna(frame)[i])])] :
              frame \in {ResolveDates(loop.messages, loop.dates, strict)} } : TRUE

preprocess(text, strict) ==
    CHOOSE r \in {AfterLoop(loop, strict) : loop \in {TryPatterns(1, text)}} : TRUE

----------------------------------------------------------------------------
(* Transcripts                                                             *)

MaxLines == 2

Minutes == <<"30", "31", "32", "33">>

\* The timestamp that opens line number pos, with its separator, per kind.
Stamp(kind, pos) ==
    LET mm == Minutes[pos]
    IN  CASE kind = "dmY" ->
               <<"25", "/", "12", "/", "2023", ",", " ", "10", ":", mm, " ", "-", " ">>
          [] kind = "dmy" ->
               <<"25", "/", "12", "/", "23", ",", " ", "10", ":", mm, " ", "-", " ">>
          [] kind = "12h" ->
               <<"12", "/", "25", "/", "2023", ",", " ", "10", ":", mm, " ", "PM",
                 " ", "-", " ">>
          [] kind = "dot" ->
               <<"25", ".", "12", ".", "2023", ",", " ", "22", ":", mm, " ", "-", " ">>
          [] kind = "iso" ->
               <<"2023", "-", "12", "-", "25", ",", " ", "23", ":", mm, " ", "-", " ">>
          [] kind = "sec" ->
               <<"[", "25", "/", "12", "/", "2023", ",", " ", "09", ":", mm, ":", "45",
                 "]", " ">>
          [] kind = "bad" ->
               <<"25", "/", "12", "/", "2023", ",", " ", "61", ":", mm, " ", "-", " ">>

Kinds == {"dmY", "dmy", "dot", "sec", "bad"}

RareKinds == {"12h", "iso"}

Bodies == {
    <<"John", ":", " ", "Hello", " ", "everyone!">>,
    << >>,
    <<"John", ":", " ">> }

\* A body whose text before the colon holds system indicator k.
SystemBody(k) == <<"Bob", " ">> \o system_indicators[k] \o <<":", " ", "ok">>

SeparatorBodies == {
    <<"John", " ", "added", " ", "Mike", ":", " ", "welcome">>,
    <<"Mike", "-", " ", "hi">>,
    <<"Jane", ">", " ", "yo">>,
    <<"John", " ", "added", " ", "Mike">>,
    <<"Mike", "-", "Jane", ":", " ", "hi">>,
    <<"Jane", ">", "Mike", "-", " ", "hi">>,
    <<":", "Mike", "-", " ", "hi">>,
    <<"-", "Jane", ">", " ", "yo">> }

Leads == { << >>, <<"Chat", " ", "export", "\n">> }

Line(kind, body, pos) == Stamp(kind, pos) \o body \o <<"\n">>

RECURSIVE Lines(_, _, _)
Lines(ks, bs, pos) ==
    IF pos > Len(ks) THEN << >>
    ELSE Line(ks[pos], bs[pos], pos) \o Lines(ks, bs, pos + 1)

\* Every transcript of at most MaxLines lines, with or without leading text.
Generated ==
    UNION { { lead \o Lines(ks, bs, 1) :
                lead \in Leads, ks \in [1..n -> Kinds], bs \in [1..n -> Bodies] } :
            n \in 0..MaxLines }

\* Two-line transcripts whose first body is a system or a separator case, and
\* two-line transcripts that open with a 12-hour or an ISO timestamp.
Special ==
    { Line("dmY", b, 1) \o Line("dmY", <<"Jane", ":", " ", "Hi">>, 2) :
        b \in {SystemBody(k) : k \in 1..Len(system_indicators)} \cup SeparatorBodies }
    \cup
    { Line(k1, b, 1) \o Line(k2, <<"Jane", ":", " ", "Hi">>, 2) :
        k1 \in RareKinds, k2 \in Kinds \cup RareKinds, b \in Bodies }

\* test_preprocessor: sample_data
sample_data ==
    Stamp("dmY", 1) \o <<"John", ":", " ", "Hello", " ", "everyone!", "\n">>
    \o Stamp("dmY", 2)
    \o <<"Jane", ":", " ", "Hi", " ", "John!", " ", "How", " ", "are", " ", "you?", "\n">>
    \o Stamp("dmY", 3)
    \o <<"John", ":", " ", "I'm", " ", "good,", " ", "thanks", " ", "for", " ",
         "asking", "\n">>
    \o Stamp("dmY", 4) \o <<"Mike", ":", " ", "Good", " ", "morning", " ", "all">>

\* Texts in which no timestamp pattern matches: no text at all, no timestamp,
\* a date without a time, a timestamp without its separator.
Unrecognized == {
    << >>,
    <<"John", ":", " ", "Hi", "\n">>,
    <<"25", "/", "12", "/", "2023", " ", "John", ":", " ", "Hi">>,
    <<"25", "/", "12", "/", "2023", ",", " ", "10", ":", "30", " ", "John", ":", " ", "Hi">>,
    <<"10", ":", "30", " ", "-", " ", "John", ":", " ", "Hi">> }

Transcripts == Generated \cup Special \cup Unrecognized \cup {sample_data}

----------------------------------------------------------------------------
(* preprocess called on its own (test_preprocessor)                        *)

NoOptions == [t \in {"basic_stats", "timeline", "activity", "wordcloud",
                     "sentiment", "emoji"} |-> FALSE]

Idle ==
    /\ messages = << >> /\ dates = << >> /\ used_pattern = 0 /\ parsed = << >>
    /\ df = << >> /\ df_columns = {} /\ raised = FALSE /\ ui = << >>
    /\ selected_user = << >> /\ options = NoOptions
    /\ attempted = << >> /\ errors = {}
    /\ df_before = [called |-> FALSE, rows |-> << >>, columns |-> {}]

InitPreprocess ==
    /\ data \in Transcripts
    /\ strict_infer \in BOOLEAN
    /\ pc = "call"
    /\ hour_col = << >> /\ period_col = << >>
    /\ Idle

CallPreprocess ==
    /\ pc = "call"
    /\ \E r \in {preprocess(data, strict_infer)} :
           /\ messages' = r.messages
           /\ dates' = r.dates
           /\ used_pattern' = r.used_pattern
           /\ parsed' = r.parsed
           /\ df' = r.df
    /\ df_columns' = RecordColumns
    /\ pc' = "returned"
    /\ UNCHANGED << data, strict_infer, raised, ui, selected_user, options,
                    attempted, errors, df_before, hour_col, period_col >>

NextPreprocess == CallPreprocess

SpecPreprocess == InitPreprocess /\ [][NextPreprocess]_vars

----------------------------------------------------------------------------
(* create_time_period applied to a column of hours (preprocess, line 141)  *)

MaxColumn == 2

InitPeriod ==
    /\ hour_col \in UNION { [1..n -> 0..23] : n \in 1..MaxColumn }
    /\ period_col = << >>
    /\ data = << >> /\ strict_infer = FALSE
    /\ pc = "period"
    /\ Idle

ApplyPeriod ==
    /\ pc = "period"
    /\ period_col' = [i \in 1..Len(hour_col) |-> create_time_period(hour_col[i])]
    /\ pc' = "returned"
    /\ UNCHANGED << data, strict_infer, messages, dates, used_pattern, parsed, df,
                    df_columns, raised, ui, selected_user, options, attempted,
                    errors, df_before, hour_col >>

NextPeriod == ApplyPeriod

SpecPeriod == InitPeriod /\ [][NextPeriod]_vars

----------------------------------------------------------------------------
(* app.main and app.analyze_chat.  Each run of the script starts from the  *)
(* uploaded text; data is the decoded text of the upload.  The helper      *)
(* module's aggregations read the Record set and return derived results;   *)
(* only whether a section was attempted and whether its try block caught   *)
(* an exception is carried.                                                *)

Overall == <<"Overall">>

NoValidData == "No valid chat data found. Please check your file format."

\* if df is None: never true of a frame
df_is_none(frame) == FALSE

\* df.empty
df_empty(frame) == Len(frame) = 0

\* main, lines 74-78: the users of the frame without the sentinel, and
\* "Overall" (the selectbox offers them in sorted order, "Overall" first).
user_list(frame) ==
    ({frame[j].user : j \in 1..Len(frame)} \ {group_notification}) \cup {Overall}

Toggles == {"basic_stats", "timeline", "activity", "wordcloud", "sentiment", "emoji"}

\* analyze_chat: its sections in program order, the last being the export row.
Sections == <<"basic_stats", "monthly_timeline", "daily_timeline",
              "week_activity_map", "month_activity_map", "activity_heatmap",
              "most_busy_users", "wordcloud", "emoji", "sentiment", "export">>

\* The condition that guards each section.
SectionEnabled(sec, user, opts) ==
    CASE sec = "basic_stats" -> opts["basic_stats"]
      [] sec \in {"monthly_timeline", "daily_timeline"} -> opts["timeline"]
      [] sec \in {"week_activity_map", "month_activity_map", "activity_heatmap"} ->
            opts["activity"]
      [] sec = "most_busy_users" -> user = Overall
      [] sec = "wordcloud" -> opts["wordcloud"]
      [] sec = "emoji" -> opts["emoji"]
      [] sec = "sentiment" -> opts["sentiment"]
      [] OTHER -> TRUE

\* The section after sec in program order.
NextSection(sec) ==
    LET k == CHOOSE i \in 1..Len(Sections) : Sections[i] = sec
    IN  IF k = Len(Sections) THEN "done" ELSE Sections[k + 1]

\* At most this many sections of one analyze_chat call raise: with ten, any
\* choice of the nine helper sections and the sentiment section can.
MaxFailures == 10

HelperSections == {"basic_stats", "monthly_timeline", "daily_timeline",
                   "week_activity_map", "month_activity_map", "activity_heatmap",
                   "most_busy_users", "wordcloud", "emoji"}

PositiveWords == {"Good", "good", "good,", "thanks", "welcome"}
NegativeWords == {"bad", "sorry"}

\* helper.analyze_sentiment_wrapper: one of three categories per message, a
\* function of the message text alone.
analyze_sentiment_wrapper(message) ==
    IF \E i \in 1..Len(message) : message[i] \in PositiveWords THEN "Positive"
    ELSE IF \E i \in 1..Len(message) : message[i] \in NegativeWords THEN "Negative"
    ELSE "Neutral"

\* df['sentiment'] = df['message'].apply(helper.analyze_sentiment_wrapper)
with_sentiment(frame) ==
    [j \in 1..Len(frame) |->
        [sentiment |-> analyze_sentiment_wrapper(frame[j].message)] @@ frame[j]]

\* The uploads main is run on: the unrecognized texts, the sample, a text
\* whose only timestamp cannot be resolved, and a text with a service line.
AppTranscripts ==
    Unrecognized \cup {sample_data}
    \cup { Line("bad", <<"Jane", ":", " ", "Hi">>, 1),
           Line("dmY", <<"John", " ", "added", " ", "Mike">>, 1)
           \o Line("dmY", <<"Jane", ":", " ", "Hi">>, 2) }

Init ==
    /\ data \in AppTranscripts
    /\ strict_infer \in BOOLEAN
    /\ pc = "start"
    /\ hour_col = << >> /\ period_col = << >>
    /\ Idle

\* main, lines 61-71: the upload is read and preprocessed; an empty frame is
\* reported and main returns.
Upload ==
    /\ pc = "start"
    /\ \E r \in {preprocess(data, strict_infer)} :
           /\ messages' = r.messages
           /\ dates' = r.dates
           /\ used_pattern' = r.used_pattern
           /\ parsed' = r.parsed
           /\ df' = r.df
           /\ ui' = IF df_empty(r.df) THEN Append(ui, NoValidData) ELSE ui
           /\ pc' = IF df_empty(r.df) THEN "done" ELSE "sidebar"
    /\ df_columns' = RecordColumns
    /\ UNCHANGED << data, strict_infer, raised, selected_user, options, attempted,
                    errors, df_before, hour_col, period_col >>

\* main, lines 73-107: a user and the toggles are chosen and the button is
\* pressed; analyze_chat is called with the frame.
ShowAnalysis ==
    /\ pc = "sidebar"
    /\ \E u \in user_list(df), o \in [Toggles -> BOOLEAN] :
           /\ selected_user' = u
           /\ options' = o
    /\ df_before' = [called |-> TRUE, rows |-> df, columns |-> df_columns]
    /\ pc' = Sections[1]
    /\ UNCHANGED << data, strict_infer, messages, dates, used_pattern, parsed, df,
                    df_columns, raised, ui, attempted, errors, hour_col, period_col >>

\* main, line 99: the button is not pressed; the run ends without analysis.
NoAnalysis ==
    /\ pc = "sidebar"
    /\ pc' = "done"
    /\ UNCHANGED << data, strict_infer, messages, dates, used_pattern, parsed, df,
                    df_columns, raised, ui, selected_user, options, attempted,
                    errors, df_before, hour_col, period_col >>

\* analyze_chat: a section whose guard is false is passed over.
SkipSection ==
    /\ pc \in HelperSections \cup {"sentiment"}
    /\ ~SectionEnabled(pc, selected_user, options)
    /\ pc' = NextSection(pc)
    /\ UNCHANGED << data, strict_infer, messages, dates, used_pattern, parsed, df,
                    df_columns, raised, ui, selected_user, options, attempted,
                    errors, df_before, hour_col, period_col >>

\* analyze_chat: a section built on a helper aggregation runs to its end.
SectionDone ==
    /\ pc \in HelperSections
    /\ SectionEnabled(pc, selected_user, options)
    /\ attempted' = Append(attempted, pc)
    /\ pc' = NextSection(pc)
    /\ UNCHANGED << data, strict_infer, messages, dates, used_pattern, parsed, df,
                    df_columns, raised, ui, selected_user, options, errors,
                    df_before, hour_col, period_col >>

\* The section without its try block: the exception leaves analyze_chat.
SectionFails_propagates ==
    /\ pc \in HelperSections
    /\ SectionEnabled(pc, selected_user, options)
    /\ attempted' = Append(attempted, pc)
    /\ Cardinality(errors) < MaxFailures
    /\ errors' = errors \cup {pc}
    /\ raised' = TRUE
    /\ pc' = "done"
    /\ UNCHANGED << data, strict_infer, messages, dates, used_pattern, parsed, df,
                    df_columns, ui, selected_user, options, df_before,
                    hour_col, period_col >>

\* analyze_chat: the section's try block catches an exception and reports it
\* with st.error.
SectionFails ==
    /\ pc \in HelperSections
    /\ SectionEnabled(pc, selected_user, options)
    /\ attempted' = Append(attempted, pc)
    /\ Cardinality(errors) < MaxFailures
    /\ errors' = errors \cup {pc}
    /\ pc' = NextSection(pc)
    /\ UNCHANGED << data, strict_infer, messages, dates, used_pattern, parsed, df,
                    df_columns, raised, ui, selected_user, options, df_before,
                    hour_col, period_col >>

\* analyze_chat, lines 327-358: the sentiment column is assigned to the frame
\* and the distribution is shown.
SentimentDone ==
    /\ pc = "sentiment"
    /\ SectionEnabled(pc, selected_user, options)
    /\ attempted' = Append(attempted, pc)
    /\ df' = with_sentiment(df)
    /\ df_columns' = df_columns \cup {"sentiment"}
    /\ pc' = NextSection(pc)
    /\ UNCHANGED << data, strict_infer, messages, dates, used_pattern, parsed,
                    raised, ui, selected_user, options, errors, df_before,
                    hour_col, period_col >>

\* analyze_chat, line 331: the classifier raises; nothing is assigned.
SentimentFailsBeforeAssign ==
    /\ pc = "sentiment"
    /\ SectionEnabled(pc, selected_user, options)
    /\ attempted' = Append(attempted, pc)
    /\ Cardinality(errors) < MaxFailures
    /\ errors' = errors \cup {pc}
    /\ pc' = NextSection(pc)
    /\ UNCHANGED << data, strict_infer, messages, dates, used_pattern, parsed, df,
                    df_columns, raised, ui, selected_user, options, df_before,
                    hour_col, period_col >>

\* analyze_chat, lines 333-358: the column is assigned, then counting or
\* drawing raises.
SentimentFailsAfterAssign ==
    /\ pc = "sentiment"
    /\ SectionEnabled(pc, selected_user, options)
    /\ attempted' = Append(attempted, pc)
    /\ Cardinality(errors) < MaxFailures
    /\ errors' = errors \cup {pc}
    /\ df' = with_sentiment(df)
    /\ df_columns' = df_columns \cup {"sentiment"}
    /\ pc' = NextSection(pc)
    /\ UNCHANGED << data, strict_infer, messages, dates, used_pattern, parsed,
                    raised, ui, selected_user, options, df_before, hour_col,
                    period_col >>

\* analyze_chat, lines 364-390: the export row; analyze_chat returns.
Export ==
    /\ pc = "export"
    /\ attempted' = Append(attempted, pc)
    /\ pc' = NextSection(pc)
    /\ UNCHANGED << data, strict_infer, messages, dates, used_pattern, parsed, df,
                    df_columns, raised, ui, selected_user, options, errors,
                    df_before, hour_col, period_col >>

Next ==
    \/ Upload
    \/ ShowAnalysis
    \/ NoAnalysis
    \/ SkipSection
    \/ SectionDone
    \/ SectionFails
    \/ SentimentDone
    \/ SentimentFailsBeforeAssign
    \/ SentimentFailsAfterAssign
    \/ Export

Spec == Init /\ [][Next]_vars

----------------------------------------------------------------------------
(* Properties of preprocess                                                *)

Range(f) == {f[i] : i \in DOMAIN f}

\* The matches of the committed pattern in the transcript.
CommittedMatches == FindMatches(patterns[used_pattern], data, 1)

\* The text between the end of match i and the start of the next match (or
\* the end of the transcript).
SegmentAfter(i) ==
    SubSeq(data, CommittedMatches[i].end,
           IF i = Len(CommittedMatches) THEN Len(data)
           ELSE CommittedMatches[i + 1].start - 1)

\* C1: once a pattern is committed, entry i is the i-th captured timestamp
\* with the text between it and the next captured timestamp, and no entry's
\* body is a captured timestamp string.
C1_PositionalPairing ==
    (pc = "returned" /\ used_pattern # 0) =>
        /\ Len(messages) = Len(CommittedMatches)
        /\ Len(dates) = Len(CommittedMatches)
        /\ \A i \in 1..Len(dates) :
              /\ dates[i] = SubSeq(data, CommittedMatches[i].capFrom,
                                   CommittedMatches[i].capTo)
              /\ messages[i] = SegmentAfter(i)
              /\ messages[i] \notin Range(dates)

\* C2: the four-line sample transcript yields exactly 4 Records, whose
\* speakers are exactly John, Jane and Mike, 2 of them John's.
C2_SampleTranscript ==
    (pc = "returned" /\ data = sample_data) =>
        /\ Len(df) = 4
        /\ {df[j].user : j \in 1..Len(df)} = {<<"John">>, <<"Jane">>, <<"Mike">>}
        /\ Cardinality({j \in 1..Len(df) : df[j].user = <<"John">>}) = 2

\* C3: each entry's timestamp is resolved by inference and, when inference
\* fails for that entry, by parse_date_manually; the entry loses its date
\* only if both fail for it.
C3_PerEntryFallback ==
    (pc = "returned" /\ used_pattern # 0) =>
        \A i \in 1..Len(dates) :
            LET inferred == to_datetime_coerce(dates, strict_infer)[i]
                manual == parse_date_manually(dates[i])
            IN  parsed[i].date = IF inferred.ok THEN inferred ELSE manual

\* The index of the first separator convention that matches the segment, 0
\* when none does.
WinningSeparator(seg) ==
    IF \E k \in 1..Len(user_patterns) : UserMatch(user_patterns[k], seg).matched
    THEN CHOOSE k \in 1..Len(user_patterns) :
            /\ UserMatch(user_patterns[k], seg).matched
            /\ \A m \in 1..(k - 1) : ~UserMatch(user_patterns[m], seg).matched
    ELSE 0

\* The text before the winning separator.
PutativeSpeaker(seg) == Strip(UserMatch(user_patterns[WinningSeparator(seg)], seg).g1)

\* C4: a segment whose putative speaker contains any phrase of the
\* system-indicator list yields a Record with the sentinel speaker and the
\* whole trimmed segment as its body.
C4_SystemLines ==
    pc = "returned" =>
        \A i \in 1..Len(parsed) :
            LET seg == Strip(parsed[i].user_message)
            IN  (/\ parsed[i].date.ok
                 /\ WinningSeparator(seg) # 0
                 /\ \E k \in 1..Len(system_indicators) :
                        Contains(PutativeSpeaker(seg), system_indicators[k]))
                => \E j \in 1..Len(df) :
                        /\ df[j].entry = i
                        /\ df[j].user = group_notification
                        /\ df[j].message = seg

\* C7: every Record has a resolved timestamp; an entry whose timestamp text
\* resolves to no value never appears in the output, and if every entry is
\* removed the result is the empty Record set.
C7_ResolvedTimestamps ==
    pc = "returned" =>
        /\ \A j \in 1..Len(df) : df[j].date.ok /\ df[j].date = parsed[df[j].entry].date
        /\ \A i \in 1..Len(parsed) :
              ~parsed[i].date.ok => \A j \in 1..Len(df) : df[j].entry # i
        /\ (\A i \in 1..Len(parsed) : ~parsed[i].date.ok) => df = << >>

\* C7 witness: one entry lost its timestamp and was removed while another
\* entry of the same transcript became a Record.
C7_Witness ==
    /\ pc = "returned"
    /\ df # << >>
    /\ \E i \in 1..Len(parsed) : ~parsed[i].date.ok

\* C8: every Record's body is non-empty after trimming; the entries whose
\* body trims to the empty string are the ones removed, and the Records keep
\* their document order.
C8_NonEmptyBodies ==
    pc = "returned" =>
        /\ \A j \in 1..Len(df) : Strip(df[j].message) # << >>
        /\ \A j, k \in 1..Len(df) : j < k => df[j].entry < df[k].entry
        /\ \A i \in 1..Len(parsed) :
              (parsed[i].date.ok
               /\ Strip(ExtractUser(parsed[i].user_message).message) # << >>)
              => \E j \in 1..Len(df) : df[j].entry = i

\* C8 witness: a resolved entry of a real author with an empty body was
\* removed, and a Record of the same transcript remains.
C8_Witness ==
    /\ pc = "returned"
    /\ df # << >>
    /\ \E i \in 1..Len(parsed) :
          /\ parsed[i].date.ok
          /\ ExtractUser(parsed[i].user_message).user # group_notification
          /\ Strip(ExtractUser(parsed[i].user_message).message) = << >>
          /\ \A j \in 1..Len(df) : df[j].entry # i

\* The number of body segments a candidate splits the text into: the texts
\* around its matches, an empty leading text not counted.
BodySegments(ms) ==
    IF ms = << >> THEN 1 ELSE Len(ms) + (IF ms[1].start = 1 THEN 0 ELSE 1)

\* A candidate that yields at least one match and at least as many segments
\* as matches.
Committable(i) ==
    \E ms \in {FindMatches(patterns[i], data, 1)} :
        Len(ms) >= 1 /\ BodySegments(ms) >= Len(ms)

\* C10: the first committable candidate in list order is committed, and
\* every entry comes from that candidate alone.
C10_FirstCandidateCommitted ==
    pc = "returned" =>
        /\ used_pattern \in 0..Len(patterns)
        /\ \A i \in 1..Len(patterns) :
              Committable(i) => (used_pattern # 0 /\ used_pattern <= i)
        /\ used_pattern # 0 =>
              /\ Committable(used_pattern)
              /\ dates = re_findall(patterns[used_pattern], data)
              /\ Len(messages) = Len(dates)
              /\ \E pieces \in {re_split(patterns[used_pattern], data)} :
                    \A i \in 1..Len(messages) : messages[i] \in Range(pieces)
              /\ \A j \in 1..Len(df) : df[j].date = parsed[df[j].entry].date
              /\ \A i \in 1..Len(parsed) : parsed[i].message_date = dates[i]
        /\ used_pattern = 0 => (dates = << >> /\ messages = << >> /\ df = << >>)

\* C10 witness: the committed candidate is followed in the list by another
\* candidate that also matches the transcript.
C10_Witness ==
    /\ pc = "returned"
    /\ used_pattern # 0
    /\ \E i \in (used_pattern + 1)..Len(patterns) :
          /\ Committable(i)
          /\ re_findall(patterns[i], data) # dates

\* C9: for every hour h in 0..23 the label is the zero-padded h, a dash and
\* the zero-padded (h+1) mod 24; distinct hours get distinct labels.
C9_HourBuckets ==
    pc = "returned" =>
        /\ Len(period_col) = Len(hour_col)
        /\ \A i \in 1..Len(hour_col) :
              LET h == hour_col[i]
                  n == (h + 1) % 24
              IN  /\ period_col[i] = <<Digit(h \div 10), Digit(h % 10), "-",
                                       Digit(n \div 10), Digit(n % 10)>>
                  /\ h = 23 => period_col[i] = <<"2", "3", "-", "0", "0">>
                  /\ h = 0 => period_col[i] = <<"0", "0", "-", "0", "1">>
                  /\ h = 9 => period_col[i] = <<"0", "9", "-", "1", "0">>
        /\ \A i, j \in 1..Len(hour_col) :
              hour_col[i] # hour_col[j] => period_col[i] # period_col[j]

\* C9 witness: the wraparound hour and hour 0 were both labelled.
C9_Witness ==
    /\ pc = "returned"
    /\ hour_col = <<23, 0>>
    /\ period_col = << <<"2", "3", "-", "0", "0">>, <<"0", "0", "-", "0", "1">> >>

\* The putative speaker holds a phrase of the indicator list, in any
\* capitalisation.
MentionsIndicator(speaker) ==
    \E k \in 1..Len(system_indicators) :
        Contains(Lower(speaker), Lower(system_indicators[k]))

\* The speaker and body the convention of index k gives for the segment.
SplitBy(k, seg) ==
    [user |-> Strip(UserMatch(user_patterns[k], seg).g1),
     message |-> Strip(UserMatch(user_patterns[k], seg).g2)]

\* C11: each segment is split by the first of colon, dash, angle bracket that
\* matches it, whatever later conventions also match and whatever the other
\* segments of the transcript are; only a service line gives up the split for
\* the sentinel.
C11_SeparatorPrecedence ==
    pc = "returned" =>
        \A j \in 1..Len(df) :
            \E seg \in {Strip(parsed[df[j].entry].user_message)} :
                \E k \in {WinningSeparator(seg)} :
                    k # 0 =>
                        LET got == [user |-> df[j].user, message |-> df[j].message]
                            whole == [user |-> group_notification, message |-> seg]
                        IN  /\ got \in {SplitBy(k, seg), whole}
                            /\ ~MentionsIndicator(SplitBy(k, seg).user)
                                  => got = SplitBy(k, seg)

\* C11 witness: two Records of one transcript were split by different
\* conventions, one of them by the dash although the angle bracket matches
\* its segment too.
C11_Witness ==
    /\ pc = "returned"
    /\ \E j1, j2 \in 1..Len(df) :
          \E s1 \in {Strip(parsed[df[j1].entry].user_message)},
             s2 \in {Strip(parsed[df[j2].entry].user_message)} :
              /\ WinningSeparator(s1) = 1
              /\ WinningSeparator(s2) = 2
              /\ UserMatch(user_patterns[3], s2).matched
              /\ df[j1].user = SplitBy(1, s1).user
              /\ df[j2].user = SplitBy(2, s2).user

\* C12: a segment that matches none of the three conventions yields a Record
\* with the sentinel speaker and the whole trimmed segment as its body.
C12_NoSeparatorIsNotification ==
    pc = "returned" =>
        \A i \in 1..Len(parsed) :
            \E seg \in {Strip(parsed[i].user_message)} :
                (parsed[i].date.ok /\ seg # << >> /\ WinningSeparator(seg) = 0) =>
                    /\ \E j \in 1..Len(df) : df[j].entry = i
                    /\ \A j \in 1..Len(df) :
                          df[j].entry = i =>
                              /\ df[j].user = group_notification
                              /\ df[j].message = seg

\* C12 witness: the segment "John added Mike" became a sentinel Record.
C12_Witness ==
    /\ pc = "returned"
    /\ \E j \in 1..Len(df) :
          /\ Strip(parsed[df[j].entry].user_message)
                = <<"John", " ", "added", " ", "Mike">>
          /\ df[j].user = group_notification
          /\ df[j].message = <<"John", " ", "added", " ", "Mike">>

----------------------------------------------------------------------------
(* Properties of main and analyze_chat                                     *)

\* No timestamp pattern matches anywhere in the transcript.
NoPatternMatches ==
    \A i \in 1..Len(patterns) : FindMatches(patterns[i], data, 1) = << >>

\* C5: when no timestamp pattern matches, preprocess returns the empty
\* Record set without raising, main reports "No valid chat data found" and
\* returns, and analyze_chat is never invoked.
C5_UnrecognizedFormat ==
    NoPatternMatches =>
        /\ pc \in {"start", "done"}
        /\ ~raised
        /\ ~df_before.called
        /\ attempted = << >>
        /\ pc = "done" => (df = << >> /\ ui = <<NoValidData>>)

\* C5 witness: main has returned on the zero-length transcript with its report.
C5_Witness ==
    /\ pc = "done"
    /\ data = << >>
    /\ ui = <<NoValidData>>

\* The sections that come before position p of analyze_chat, in program order.
SectionsBefore(p) ==
    IF p = "done" THEN Sections
    ELSE SubSeq(Sections, 1, (CHOOSE i \in 1..Len(Sections) : Sections[i] = p) - 1)

\* The sections whose guard holds for the chosen user and toggles.
EnabledOf(secs) ==
    SelectSeq(secs, LAMBDA sec : SectionEnabled(sec, selected_user, options))

\* C13: whichever sections raise, every enabled section is attempted in the
\* fixed order; a failure stays in its section, later enabled sections still
\* run and nothing leaves analyze_chat.
C13_SectionIsolation ==
    df_before.called =>
        /\ ~raised
        /\ pc \in Range(Sections) \cup {"done"}
        /\ attempted = EnabledOf(SectionsBefore(pc))
        /\ errors \subseteq Range(attempted)

\* C13 witness: with every toggle on and the Overall filter, the first section
\* and a later section raised and analyze_chat still attempted all sections.
C13_Witness ==
    /\ pc = "done"
    /\ df_before.called
    /\ selected_user = Overall
    /\ \A t \in Toggles : options[t]
    /\ "basic_stats" \in errors
    /\ Cardinality(errors) >= 2
    /\ attempted = Sections

\* C6: after analyze_chat the Record set has the rows and the columns it had
\* when analyze_chat was called.
C6_RecordSetUnchanged ==
    (pc = "done" /\ df_before.called) =>
        (df = df_before.rows /\ df_columns = df_before.columns)

====
